---- MODULE Spec2Model ----
(***************************************************************************)
(* DPPify backend: the POST /generate_dpp/ handler (src/main.py), the      *)
(* orchestration DPPify.run (src/backend/main_agent.py) and the uploader   *)
(* upload_pdf, as one request's state machine.  External collaborators     *)
(* (prompt files, the LLM client, the PDF renderer, the upload service,    *)
(* the local file system) are inputs chosen at the step that calls them.   *)
(***************************************************************************)
EXTENDS Naturals, Integers, Sequences, FiniteSets, TLC

VARIABLES
    q_type,        \* agent_inputs.question_type, a sequence of characters
    q_base,        \* the lower-case, space-free word q_type is a variation of
    total_q,       \* agent_inputs.total_q
    promptFiles,   \* prompt template paths that exist on disk
    pc,            \* position of the request in the pipeline
    prompt_path,   \* path chosen by _get_system_prompt ("None" before)
    llm_response,  \* agent.run(...).content
    questions_list,\* [q.text for q in response.questions]
    rendered_q,    \* the question list handed to create_dpp_pdf
    pdf_path,      \* generate_dpp's local pdf_path ("None" or a path)
    disk,          \* the request's PDF file: "absent", "partial", "complete"
    http,          \* what the endpoint answered
    runResult,     \* what DPPify.run gave its caller
    raised,        \* the exception that reached run's except clauses
    trace,         \* stages of run executed so far, in order
    failed,        \* the stage that failed ("None" if none did)
    cause,         \* what made that stage fail
    netCalls,      \* network calls attempted so far, in order
    uploadMode,    \* how the upload attempt went
    diskAtUpload   \* state of the file when upload_pdf was called

vars == <<q_type, q_base, total_q, promptFiles, pc, prompt_path, llm_response,
          questions_list, rendered_q, pdf_path, disk, http, runResult, raised,
          trace, failed, cause, netCalls, uploadMode, diskAtUpload>>

----------------------------------------------------------------------------
(* Bounds *)

\* largest question count requested or returned
MaxQ == 3
\* most characters of a label written in upper case
MaxUpper == 3
\* most spaces inserted into a label
MaxSpaces == 2

----------------------------------------------------------------------------
(* Strings as sequences of characters; messages as sequences of pieces *)

Str_onlymcq == <<"o","n","l","y","m","c","q">>
Str_onlysaq == <<"o","n","l","y","s","a","q">>
Str_both == <<"b","o","t","h">>

\* The three values the request model accepts for question_type
Lit_only_MCQ == <<"o","n","l","y"," ","M","C","Q">>
Lit_only_SAQ == <<"o","n","l","y"," ","S","A","Q">>
Lit_both == <<"b","o","t","h">>

LetterPairs ==
    { <<"o","O">>, <<"n","N">>, <<"l","L">>, <<"y","Y">>, <<"m","M">>,
      <<"c","C">>, <<"q","Q">>, <<"s","S">>, <<"a","A">>, <<"b","B">>,
      <<"t","T">>, <<"h","H">> }

\* str.lower() on one character
LowerChar(c) ==
    IF \E p \in LetterPairs : p[2] = c
    THEN (CHOOSE p \in LetterPairs : p[2] = c)[1]
    ELSE c

\* str.upper() on one character
UpperChar(c) ==
    IF \E p \in LetterPairs : p[1] = c
    THEN (CHOOSE p \in LetterPairs : p[1] = c)[2]
    ELSE c

\* str.lower()
Lower(s) == [i \in 1..Len(s) |-> LowerChar(s[i])]

IsNotSpace(c) == c # " "

\* str.replace(" ", "")
RemoveSpaces(s) == SelectSeq(s, IsNotSpace)

\* whether the sequence small occurs contiguously in big
Contains(big, small) ==
    \E i \in 0..(Len(big) - Len(small)) :
        \A j \in 1..Len(small) : big[i + j] = small[j]

----------------------------------------------------------------------------
(* Exceptions: a class and a message *)

NoExc == [cls |-> "None", msg |-> <<>>]

Exc(c, m) == [cls |-> c, msg |-> m]

\* The classes each exception class is an instance of (itself and its bases)
Ancestors(c) ==
    CASE c = "FileNotFoundError" -> {"FileNotFoundError", "OSError", "Exception"}
      [] c = "PermissionError" -> {"PermissionError", "OSError", "Exception"}
      [] c = "ConnectionError" -> {"ConnectionError", "OSError", "Exception"}
      [] c = "TimeoutError" -> {"TimeoutError", "OSError", "Exception"}
      [] c = "ValueError" -> {"ValueError", "Exception"}
      [] c = "UnicodeDecodeError" -> {"UnicodeDecodeError", "ValueError", "Exception"}
      [] c = "json.JSONDecodeError" -> {"json.JSONDecodeError", "ValueError", "Exception"}
      [] c = "KeyError" -> {"KeyError", "LookupError", "Exception"}
      [] c = "TypeError" -> {"TypeError", "Exception"}
      [] c = "AttributeError" -> {"AttributeError", "Exception"}
      [] c = "RuntimeError" -> {"RuntimeError", "Exception"}
      [] c = "requests.ConnectionError" ->
            {"requests.ConnectionError", "RequestException", "OSError", "Exception"}
      [] c = "requests.Timeout" ->
            {"requests.Timeout", "RequestException", "OSError", "Exception"}
      [] c = "requests.HTTPError" ->
            {"requests.HTTPError", "RequestException", "OSError", "Exception"}
      [] c = "requests.JSONDecodeError" ->
            {"requests.JSONDecodeError", "RequestException", "OSError",
             "json.JSONDecodeError", "ValueError", "Exception"}
      [] c = "HTTPException" -> {"HTTPException", "Exception"}
      [] OTHER -> {}

\* isinstance(e, classes), as an except clause tests it
IsInstance(e, classes) == Ancestors(e.cls) \cap classes # {}

\* str(e) of an exception the environment raises
CauseMsg(c) == <<"cause of ", c>>

----------------------------------------------------------------------------
(* Prompt Selector: DPPify.PROMPT_MAP and DPPify._get_system_prompt *)

Path_mcq == "backend/prompts/only_mcq_creator_system_prompt.txt"
Path_saq == "backend/prompts/only_saq_creator_system_prompt.txt"
Path_both == "backend/prompts/both_questions_creater_system_prompt.txt"

PromptPaths == {Path_mcq, Path_saq, Path_both}

\* PROMPT_MAP.get(key, PROMPT_MAP["both"])
PROMPT_MAP_get(key) ==
    CASE key = Str_onlymcq -> Path_mcq
      [] key = Str_onlysaq -> Path_saq
      [] key = Str_both -> Path_both
      [] OTHER -> Path_both

\* variant: lower-cases but keeps the spaces
Normalize_keepSpaces(question_type) == Lower(question_type)

\* question_type.lower().replace(" ", "")
normalized_q_type(question_type) == RemoveSpaces(Lower(question_type))

\* the template path _get_system_prompt opens
select_prompt_path(question_type) == PROMPT_MAP_get(normalized_q_type(question_type))

\* outcomes of open()/read() on a prompt file that exists
ReadOutcomes == {"ok", "PermissionError", "UnicodeDecodeError"}

\* variant: the message without the path
prompt_missing_msg_noPath(path) == <<"Could not find the required prompt file">>

\* the message of the FileNotFoundError _get_system_prompt raises
prompt_missing_msg(path) == <<"Could not find the required prompt file: ", path>>

\* the exception _get_system_prompt raises (NoExc when it returns the text)
get_system_prompt_exc(path, files, rd) ==
    IF path \notin files
    THEN Exc("FileNotFoundError", prompt_missing_msg(path))
    ELSE IF rd = "ok" THEN NoExc ELSE Exc(rd, CauseMsg(rd))

----------------------------------------------------------------------------
(* Generation Client and Response Validator: DPPify._generate_dpp_metadata *)

\* questions of a structured response with n questions
Questions(n) == [i \in 1..n |-> [text |-> i]]

NullResponse == [kind |-> "null", questions |-> <<>>]
TextResponse == [kind |-> "text", questions |-> <<>>]
DocResponse(n) == [kind |-> "doc", questions |-> Questions(n)]

\* what agent.run(user_prompt).content can be
Responses == {NullResponse, TextResponse} \cup {DocResponse(n) : n \in 0..MaxQ}

\* exception classes the LLM client may raise
LLMErrClasses == {"TimeoutError", "ValueError", "KeyError", "requests.ConnectionError"}

\* variant: the message without the underlying cause
llm_error_msg_noCause(e) ==
    <<"Failed to get a response from the AI model. Please check your API key and network connection.">>

\* message of the ConnectionError raised at main_agent.py:123
llm_error_msg(e) ==
    <<"Failed to get a response from the AI model. Please check your API key and network connection. Details: ">>
        \o e.msg

\* except Exception as e: raise ConnectionError(...)
generate_except(e) == Exc("ConnectionError", llm_error_msg(e))

empty_generation_msg ==
    <<"The AI model failed to generate questions. Please try again with a different topic or settings.">>

\* bool(response): None is falsy, a non-empty str and a model object are truthy
Truthy(response) == response.kind # "null"

\* variant: only "not response" is tested, an empty question list passes
validate_exc_nullOnly(response) ==
    IF ~Truthy(response)
    THEN Exc("ValueError", empty_generation_msg)
    ELSE IF response.kind = "text"
         THEN Exc("AttributeError", <<"'str' object has no attribute 'questions'">>)
         ELSE NoExc

\* if not response or not response.questions: raise ValueError(...)
validate_exc(response) ==
    IF ~Truthy(response)
    THEN Exc("ValueError", empty_generation_msg)
    ELSE IF response.kind = "text"
         THEN Exc("AttributeError", <<"'str' object has no attribute 'questions'">>)
         ELSE IF Len(response.questions) = 0
              THEN Exc("ValueError", empty_generation_msg)
              ELSE NoExc

\* [q.text for q in response.questions]
extract_questions(response) ==
    [i \in 1..Len(response.questions) |-> response.questions[i].text]

----------------------------------------------------------------------------
(* Orchestration: DPPify.run *)

Stages == <<"BuildRequest", "Generate", "Validate", "Render">>

\* variant: the response goes to the renderer unvalidated
StageAfter_skipValidate(s) ==
    CASE s = "BuildRequest" -> "Generate"
      [] s = "Generate" -> "Render"
      [] s = "Validate" -> "Render"
      [] s = "Render" -> "Check"

\* the statement order of run and _generate_dpp_metadata: where control
\* goes when stage s returns normally
StageAfter(s) ==
    CASE s = "BuildRequest" -> "Generate"
      [] s = "Generate" -> "Validate"
      [] s = "Validate" -> "Render"
      [] s = "Render" -> "Check"

\* variant: ValueError is missing from the pass-through tuple
run_except_wrapValue(e) ==
    IF IsInstance(e, {"FileNotFoundError", "ConnectionError"})
    THEN e
    ELSE Exc("RuntimeError", <<"An unexpected error occurred: ">> \o e.msg)

\* the except clauses of run: the exception its caller receives
run_except(e) ==
    IF IsInstance(e, {"FileNotFoundError", "ConnectionError", "ValueError"})
    THEN e
    ELSE Exc("RuntimeError", <<"An unexpected error occurred: ">> \o e.msg)

----------------------------------------------------------------------------
(* PDF Renderer: backend.functions.metadata_to_pdf.create_dpp_pdf *)

PdfPath == "dpp.pdf"

\* exception classes the renderer may raise
RenderErrClasses == {"ValueError", "FileNotFoundError", "PermissionError", "KeyError"}

\* what a call of create_dpp_pdf can do: return the path of a complete file,
\* return a path with no file behind it, return nothing, or raise, leaving
\* a partial file or none
RenderOutcomes ==
    [kind : {"ok", "nofile", "none"}, cls : {"None"}, partial : {FALSE}]
        \cup [kind : {"raise"}, cls : RenderErrClasses, partial : BOOLEAN]

----------------------------------------------------------------------------
(* Uploader: upload_pdf *)

UploadUrl == <<"https://", "tmpfiles.org/", "12345/", "dpp.pdf">>
OtherUrl == <<"https://", "files.example/", "12345/", "dpp.pdf">>

JsonBody(top, data, url, val) == [top |-> top, data |-> data, url |-> url, val |-> val]

\* bodies the upload service may answer with: not JSON, JSON that is no
\* object, an object without "data", "data" of a wrong type, "url" missing or
\* of a wrong type, and the expected shape
Bodies ==
    {JsonBody(t, "-", "-", <<>>) :
        t \in {"unparseable", "int", "list", "str_nodata", "str_data"}}
    \cup {JsonBody("dict", d, "-", <<>>) :
        d \in {"missing", "null", "str_nourl", "str_url", "list"}}
    \cup {JsonBody("dict", "dict", u, <<>>) : u \in {"missing", "null", "int"}}
    \cup {JsonBody("dict", "dict", "str", v) : v \in {UploadUrl, OtherUrl}}

\* everything upload_pdf's collaborators decide
UploadEnvs ==
    [open : {"ok", "PermissionError"},
     post : {"ok", "requests.ConnectionError", "requests.Timeout"},
     status : {200, 500},
     body : Bodies,
     jsonlib : {"requests.JSONDecodeError", "json.JSONDecodeError"},
     remove : {"ok", "PermissionError"}]

\* lines 71-77: response.json(), the two membership tests and the two
\* subscripts; the exception they raise, or NoExc
response_url_exc(env) ==
    LET b == env.body IN
    IF b.top = "unparseable" THEN Exc(env.jsonlib, CauseMsg(env.jsonlib))
    ELSE IF b.top = "int"
    THEN Exc("TypeError", <<"argument of type 'int' is not iterable">>)
    ELSE IF b.top \in {"list", "str_nodata"} \/ (b.top = "dict" /\ b.data = "missing")
    THEN Exc("ValueError", <<"Unexpected response format from tmpfiles.org">>)
    ELSE IF b.top = "str_data"
    THEN Exc("TypeError", <<"string indices must be integers">>)
    ELSE IF b.data = "null"
    THEN Exc("TypeError", <<"argument of type 'NoneType' is not iterable">>)
    ELSE IF b.data \in {"str_nourl", "list"} \/ (b.data = "dict" /\ b.url = "missing")
    THEN Exc("ValueError", <<"Unexpected response format from tmpfiles.org">>)
    ELSE IF b.data = "str_url"
    THEN Exc("TypeError", <<"string indices must be integers">>)
    ELSE IF b.url \in {"null", "int"}
    THEN Exc("AttributeError", <<"object has no attribute 'replace'">>)
    ELSE NoExc

RECURSIVE ReplaceHost(_)
\* download_url.replace("tmpfiles.org/", "tmpfiles.org/dl/")
ReplaceHost(u) ==
    IF u = <<>> THEN <<>>
    ELSE IF Head(u) = "tmpfiles.org/"
         THEN <<"tmpfiles.org/", "dl/">> \o ReplaceHost(Tail(u))
         ELSE <<Head(u)>> \o ReplaceHost(Tail(u))

UploadReturn(u) == [kind |-> "return", url |-> u, exc |-> NoExc, removed |-> TRUE]
UploadRaise(e) == [kind |-> "raise", url |-> <<>>, exc |-> e, removed |-> FALSE]

\* the try block of upload_pdf, lines 63-82
upload_try(env) ==
    IF env.open # "ok" THEN UploadRaise(Exc(env.open, CauseMsg(env.open)))
    ELSE IF env.post # "ok" THEN UploadRaise(Exc(env.post, CauseMsg(env.post)))
    ELSE IF env.status >= 400
    THEN UploadRaise(Exc("requests.HTTPError", CauseMsg("requests.HTTPError")))
    ELSE IF response_url_exc(env) # NoExc THEN UploadRaise(response_url_exc(env))
    ELSE IF env.remove # "ok" THEN UploadRaise(Exc(env.remove, CauseMsg(env.remove)))
    ELSE UploadReturn(ReplaceHost(env.body.val))

HTTPException(detail) == Exc("HTTPException", detail)

Detail_upload == <<"Failed to upload generated PDF">>
Detail_shape == <<"Invalid response from file upload service">>
Detail_fs == <<"Error processing generated PDF file">>
Detail_nofile == <<"DPP generation failed or produced no file.">>

\* the except clauses of upload_pdf, lines 83-94, first match first
upload_except(e) ==
    IF IsInstance(e, {"RequestException"}) THEN HTTPException(Detail_upload)
    ELSE IF IsInstance(e, {"ValueError", "KeyError"}) THEN HTTPException(Detail_shape)
    ELSE IF IsInstance(e, {"OSError"}) THEN HTTPException(Detail_fs)
    ELSE e

\* variant: a malformed answer of the service yields an (empty) URL
upload_pdf_urlOnShapeError(env) ==
    LET r == upload_try(env) IN
    IF r.kind = "return" THEN r
    ELSE IF IsInstance(r.exc, {"ValueError", "KeyError"})
         THEN UploadReturn(<<>>)
         ELSE UploadRaise(upload_except(r.exc))

\* upload_pdf: what it returns or raises, and whether it removed the file
upload_pdf(env) ==
    LET r == upload_try(env) IN
    IF r.kind = "return" THEN r ELSE UploadRaise(upload_except(r.exc))

----------------------------------------------------------------------------
(* HTTP Endpoint: generate_dpp *)

NoAnswer == [kind |-> "none", status |-> 0, detail |-> <<>>, pdf_url |-> <<>>]
Success(u) == [kind |-> "ok", status |-> 200, detail |-> <<>>, pdf_url |-> u]
ErrorResponse(code, d) == [kind |-> "error", status |-> code, detail |-> d, pdf_url |-> <<>>]

\* the except clauses of generate_dpp, lines 122-132, for exception e raised
\* in the try block with local pdf_path = path and the file in state d;
\* rmOk: whether os.remove succeeds.  Gives the answer and the file's state.
generate_dpp_except(e, path, d, rmOk) ==
    IF IsInstance(e, {"HTTPException"})
    THEN [http |-> ErrorResponse(500, e.msg), disk |-> d]
    ELSE [http |-> ErrorResponse(500, <<"Internal server error: ">> \o e.msg),
          disk |-> IF path # "None" /\ d # "absent" /\ rmOk THEN "absent" ELSE d]

----------------------------------------------------------------------------
(* Requests *)

\* the word a literal of the request model is a variation of
BaseOfLiteral(l) ==
    CASE l = Lit_only_MCQ -> Str_onlymcq
      [] l = Lit_only_SAQ -> Str_onlysaq
      [] l = Lit_both -> Str_both

\* DPPify_input.question_type: Literal["only MCQ", "only SAQ", "both"]
QuestionTypes == {Lit_only_MCQ, Lit_only_SAQ, Lit_both}

RECURSIVE Vary(_, _, _, _)
\* base from character i on, with the characters at positions U in upper
\* case and a space in each gap of S (gap k lies after character k)
Vary(base, U, S, i) ==
    IF i > Len(base)
    THEN <<>>
    ELSE <<IF i \in U THEN UpperChar(base[i]) ELSE base[i]>>
            \o (IF i \in S THEN <<" ">> ELSE <<>>)
            \o Vary(base, U, S, i + 1)

Variation(base, U, S) == (IF 0 \in S THEN <<" ">> ELSE <<>>) \o Vary(base, U, S, 1)

\* words no key of PROMPT_MAP is a variation of
UnknownBases ==
    { <<"m","c","q">>, <<"b","o","t">>, <<"o","n","l","y">>, <<"s","a","q","s">>, <<>> }

Bases == {Str_onlymcq, Str_onlysaq, Str_both} \cup UnknownBases

\* the labels _get_system_prompt is tried on, each with the word it varies
Labels ==
    UNION { { [label |-> Variation(b, U, S), base |-> b] :
                U \in {X \in SUBSET (1..Len(b)) : Cardinality(X) <= MaxUpper},
                S \in {Y \in SUBSET (0..Len(b)) : Cardinality(Y) <= MaxSpaces} } :
            b \in Bases }

Fresh ==
    /\ pc = "BuildRequest"
    /\ prompt_path = "None"
    /\ llm_response = NullResponse
    /\ questions_list = <<>>
    /\ rendered_q = <<>>
    /\ pdf_path = "None"
    /\ disk = "absent"
    /\ http = NoAnswer
    /\ runResult = [kind |-> "none", path |-> "None", exc |-> NoExc]
    /\ raised = NoExc
    /\ trace = <<>>
    /\ failed = "None"
    /\ cause = "None"
    /\ netCalls = <<>>
    /\ uploadMode = "none"
    /\ diskAtUpload = "absent"

\* a validated request has arrived at generate_dpp
Init ==
    /\ q_type \in QuestionTypes
    /\ q_base = BaseOfLiteral(q_type)
    /\ total_q \in 1..MaxQ
    /\ promptFiles \in SUBSET PromptPaths
    /\ Fresh

\* _get_system_prompt is called with an arbitrary label
InitSel ==
    /\ \E l \in Labels : q_type = l.label /\ q_base = l.base
    /\ total_q = 1
    /\ promptFiles \in {PromptPaths, {}}
    /\ Fresh

----------------------------------------------------------------------------
(* Steps of one request *)

\* stage s of run raised e for reason why, leaving the file in state d:
\* run's except clauses, then generate_dpp's, answer the request
FailInRun(s, e, why, d) ==
    LET out == generate_dpp_except(run_except(e), pdf_path, d, TRUE) IN
    /\ raised' = e
    /\ runResult' = [kind |-> "raise", path |-> "None", exc |-> run_except(e)]
    /\ http' = out.http
    /\ disk' = out.disk
    /\ failed' = s
    /\ cause' = why
    /\ trace' = Append(trace, s)
    /\ pc' = "Done"

\* stage s of run returned normally
PassInRun(s) ==
    /\ trace' = Append(trace, s)
    /\ pc' = StageAfter(s)
    /\ UNCHANGED <<raised, failed, cause>>

\* _generate_dpp_metadata, line 72: _get_system_prompt(question_type)
BuildRequest ==
    /\ pc = "BuildRequest"
    /\ \E rd \in ReadOutcomes :
        LET path == select_prompt_path(q_type)
            e == get_system_prompt_exc(path, promptFiles, rd)
        IN  /\ prompt_path' = path
            /\ IF e = NoExc
               THEN PassInRun("BuildRequest") /\ UNCHANGED <<http, disk, runResult>>
               ELSE FailInRun("BuildRequest", e,
                              IF path \notin promptFiles THEN "missing prompt" ELSE rd,
                              disk)
    /\ UNCHANGED <<q_type, q_base, total_q, promptFiles, llm_response, questions_list,
                   rendered_q, pdf_path, netCalls, uploadMode, diskAtUpload>>

\* _generate_dpp_metadata, lines 112-123: the LLM call
Generate ==
    /\ pc = "Generate"
    /\ netCalls' = Append(netCalls, "llm")
    /\ \/ \E r \in Responses :
            /\ llm_response' = r
            /\ PassInRun("Generate")
            /\ UNCHANGED <<http, disk, runResult>>
       \/ \E c \in LLMErrClasses :
            /\ FailInRun("Generate", generate_except(Exc(c, CauseMsg(c))), c, disk)
            /\ UNCHANGED llm_response
    /\ UNCHANGED <<q_type, q_base, total_q, promptFiles, prompt_path, questions_list,
                   rendered_q, pdf_path, uploadMode, diskAtUpload>>

\* _generate_dpp_metadata, lines 125-137: validate the response, extract the texts
Validate ==
    /\ pc = "Validate"
    /\ LET e == validate_exc(llm_response) IN
        IF e = NoExc
        THEN /\ questions_list' = extract_questions(llm_response)
             /\ PassInRun("Validate")
             /\ UNCHANGED <<http, disk, runResult>>
        ELSE /\ FailInRun("Validate", e, e.cls, disk)
             /\ UNCHANGED questions_list
    /\ UNCHANGED <<q_type, q_base, total_q, promptFiles, prompt_path, llm_response,
                   rendered_q, pdf_path, netCalls, uploadMode, diskAtUpload>>

\* run, lines 165-175: create_dpp_pdf, and the assignment of its result to
\* generate_dpp's pdf_path (main.py line 104)
Render ==
    /\ pc = "Render"
    /\ rendered_q' = questions_list
    /\ \E o \in RenderOutcomes :
        IF o.kind = "raise"
        THEN /\ FailInRun("Render", Exc(o.cls, CauseMsg(o.cls)), o.cls,
                          IF o.partial THEN "partial" ELSE disk)
             /\ UNCHANGED pdf_path
        ELSE /\ PassInRun("Render")
             /\ pdf_path' = IF o.kind = "none" THEN "None" ELSE PdfPath
             /\ disk' = IF o.kind = "ok" THEN "complete" ELSE disk
             /\ runResult' = [kind |-> "return", path |-> pdf_path', exc |-> NoExc]
             /\ UNCHANGED http
    /\ UNCHANGED <<q_type, q_base, total_q, promptFiles, prompt_path, llm_response,
                   questions_list, netCalls, uploadMode, diskAtUpload>>

\* generate_dpp, lines 115-116: the defensive check of run's result
Check ==
    /\ pc = "Check"
    /\ IF pdf_path = "None" \/ disk = "absent"
       THEN LET out == generate_dpp_except(HTTPException(Detail_nofile), pdf_path, disk, TRUE)
            IN  /\ http' = out.http
                /\ disk' = out.disk
                /\ failed' = "Check"
                /\ cause' = "no file"
                /\ pc' = "Done"
       ELSE /\ pc' = "Upload"
            /\ UNCHANGED <<http, disk, failed, cause>>
    /\ UNCHANGED <<q_type, q_base, total_q, promptFiles, prompt_path, llm_response,
                   questions_list, rendered_q, pdf_path, runResult, raised, trace,
                   netCalls, uploadMode, diskAtUpload>>

\* how an upload attempt with collaborators env went, from env alone
ModeOf(env) ==
    IF env.open # "ok" THEN "fs"
    ELSE IF env.post # "ok" \/ env.status >= 400 THEN "network"
    ELSE IF ~(env.body.top = "dict" /\ env.body.data = "dict" /\ env.body.url = "str")
    THEN "shape"
    ELSE IF env.remove # "ok" THEN "fs"
    ELSE "ok"

\* generate_dpp, lines 119-132: upload_pdf(pdf_path) and the answer
Upload ==
    /\ pc = "Upload"
    /\ diskAtUpload' = disk
    /\ \E env \in UploadEnvs, rmOk \in BOOLEAN :
        LET r == upload_pdf(env)
            out == generate_dpp_except(r.exc, pdf_path, disk, rmOk)
        IN  /\ uploadMode' = ModeOf(env)
            /\ netCalls' = IF env.open = "ok" THEN Append(netCalls, "upload") ELSE netCalls
            /\ failed' = IF ModeOf(env) = "ok" THEN failed ELSE "Upload"
            /\ cause' = IF ModeOf(env) = "ok" THEN cause ELSE ModeOf(env)
            /\ IF r.kind = "return"
               THEN /\ http' = Success(r.url)
                    /\ disk' = "absent"
               ELSE /\ http' = out.http
                    /\ disk' = out.disk
    /\ pc' = "Done"
    /\ UNCHANGED <<q_type, q_base, total_q, promptFiles, prompt_path, llm_response,
                   questions_list, rendered_q, pdf_path, runResult, raised, trace>>

Next == BuildRequest \/ Generate \/ Validate \/ Render \/ Check \/ Upload

Spec == Init /\ [][Next]_vars

NextSel == BuildRequest

SpecSel == InitSel /\ [][NextSel]_vars

----------------------------------------------------------------------------
(* Properties *)

StageSet == {Stages[i] : i \in 1..Len(Stages)}

Executed(s) == \E i \in 1..Len(trace) : trace[i] = s

\* C1: a finished request has answered either with a pdf_url or with an HTTP
\* error, never both and never neither; a pdf_url is answered only when
\* generation, validation, rendering and upload all succeeded, and never
\* once a stage has failed.
Thm_C1 ==
    /\ pc = "Done" => http.kind \in {"ok", "error"}
    /\ pc # "Done" => http.kind = "none"
    /\ http.kind = "ok" =>
         /\ http.status = 200
         /\ failed = "None"
         /\ trace = Stages
         /\ llm_response.kind = "doc"
         /\ Len(llm_response.questions) >= 1
         /\ disk = "absent"
         /\ runResult.kind = "return"
         /\ uploadMode = "ok"
    /\ http.kind = "error" => http.status >= 400 /\ http.pdf_url = <<>>
    /\ failed # "None" => http.kind = "error"

Wit_C1 == pc = "Done" /\ http.kind = "ok" /\ http.pdf_url # <<>>

\* C2: the stages of run execute in the order BuildRequest, Generate,
\* Validate, Render, each at most once; the stage that fails is the last one
\* executed, and nothing is executed or retried after it.
Thm_C2 ==
    /\ [](/\ Len(trace) <= Len(Stages)
          /\ \A i \in 1..Len(trace) : trace[i] = Stages[i]
          /\ failed \in StageSet => trace # <<>> /\ trace[Len(trace)] = failed)
    /\ [][(failed \in StageSet) => (trace' = trace)]_vars

Wit_C2 == failed = "Validate" /\ trace = <<"BuildRequest", "Generate", "Validate">>

\* C3: the renderer is called exactly when the LLM response is a document
\* with at least one question: a null response or one with no questions
\* fails with ValueError and the renderer is never called; one or more
\* questions go on to the renderer whatever total_q was.
Thm_C3 ==
    /\ Executed("Render") =>
         /\ llm_response.kind = "doc"
         /\ Len(llm_response.questions) >= 1
         /\ Len(rendered_q) = Len(llm_response.questions)
    /\ (Executed("Validate") /\ llm_response.kind = "doc"
            /\ Len(llm_response.questions) >= 1) =>
         (pc = "Render" \/ Executed("Render"))
    /\ (Executed("Validate")
            /\ (llm_response.kind = "null"
                \/ (llm_response.kind = "doc" /\ Len(llm_response.questions) = 0))) =>
         /\ failed = "Validate"
         /\ runResult.kind = "raise"
         /\ runResult.exc.cls = "ValueError"
         /\ ~Executed("Render")
         /\ http.kind = "error"

Wit_C3 ==
    /\ Executed("Render")
    /\ Len(rendered_q) >= 1
    /\ Len(rendered_q) # total_q

\* C4: when the LLM call fails the endpoint answers with an HTTP error whose
\* detail cites the connection failure and the underlying cause; neither the
\* renderer nor the uploader has run and the request has no PDF on disk.
Thm_C4 ==
    failed = "Generate" =>
        /\ http.kind = "error"
        /\ \E i \in 1..Len(http.detail) :
            http.detail[i] = "Failed to get a response from the AI model. Please check your API key and network connection. Details: "
        /\ Contains(http.detail, CauseMsg(cause))
        /\ ~Executed("Render")
        /\ uploadMode = "none"
        /\ netCalls = <<"llm">>
        /\ disk = "absent"

Wit_C4 == pc = "Done" /\ failed = "Generate" /\ cause = "TimeoutError"

\* C5: when the selected prompt template is missing the endpoint answers
\* with an error whose detail names the missing path, and no network call
\* (LLM or upload) has been attempted.
Thm_C5 ==
    (failed = "BuildRequest" /\ cause = "missing prompt") =>
        /\ http.kind = "error"
        /\ prompt_path \notin promptFiles
        /\ \E i \in 1..Len(http.detail) : http.detail[i] = prompt_path
        /\ netCalls = <<>>
        /\ trace = <<"BuildRequest">>

Wit_C5 == pc = "Done" /\ failed = "BuildRequest" /\ cause = "missing prompt"

\* C6: an exception of class FileNotFoundError, ConnectionError or ValueError
\* (or a subclass) raised by a stage, the render stage included, reaches the
\* caller of run unchanged; any other exception reaches it as a RuntimeError
\* whose message contains the original message; run returns a path only if
\* no stage raised.
Thm_C6 ==
    /\ runResult.kind = "raise" =>
         IF raised.cls \in {"FileNotFoundError", "ConnectionError", "ValueError",
                            "UnicodeDecodeError"}
         THEN runResult.exc = raised
         ELSE /\ runResult.exc.cls = "RuntimeError"
              /\ Contains(runResult.exc.msg, raised.msg)
              /\ raised.msg # <<>>
    /\ failed \in StageSet => runResult.kind = "raise" /\ raised # NoExc
    /\ runResult.kind = "return" => failed \notin StageSet /\ raised = NoExc

Wit_C6 == failed = "Render" /\ raised.cls = "ValueError" /\ runResult.kind = "raise"

\* C7: after upload_pdf has been called on an existing file and has
\* finished, the file no longer exists, whether it returned a URL or raised.
Cex_C7 ==
    (pc = "Done" /\ uploadMode # "none" /\ diskAtUpload # "absent") => disk = "absent"

\* C8: whenever the endpoint answers with an HTTP error, any PDF file the
\* request produced (partial or complete) has been deleted.
Cex_C8 == http.kind = "error" => disk = "absent"

ExpectedDetail(mode) ==
    CASE mode = "network" -> Detail_upload
      [] mode = "shape" -> Detail_shape
      [] mode = "fs" -> Detail_fs

\* C9: every failure inside upload_pdf is answered with the HTTP error detail
\* of its own failure mode: network/request failure, unexpected response
\* shape, file system error.
Cex_C9 ==
    (pc = "Done" /\ uploadMode \in {"network", "shape", "fs"}) =>
        /\ http.kind = "error"
        /\ http.detail = ExpectedDetail(uploadMode)

ExpectedPath(base) ==
    CASE base = Str_onlymcq -> Path_mcq
      [] base = Str_onlysaq -> Path_saq
      [] OTHER -> Path_both

\* C10: for every label the Prompt Selector picks exactly one of the three
\* templates: MCQ-only for case/space variations of "only mcq", SAQ-only for
\* variations of "only saq", "both" for variations of "both" and for every
\* unrecognized label.
Thm_C10 ==
    prompt_path # "None" =>
        /\ prompt_path \in PromptPaths
        /\ prompt_path = ExpectedPath(q_base)

Wit_C10 ==
    /\ q_type = <<" ", "O", "n", "l", "y", " ", "M", "c", "Q">>
    /\ prompt_path = Path_mcq

====
